---- MODULE Spec2Model ----
(***************************************************************************)
(* Model of atom/app/atom_main_delegate.cc: the main delegate of one OS    *)
(* process.  The state is the process's command line, its environment, the *)
(* build configuration the file was compiled under, the logging and        *)
(* resource-bundle singletons the delegate configures, and the client      *)
(* objects the delegate owns.  Every delegate callback is one action.      *)
(***************************************************************************)
EXTENDS Integers, Sequences, FiniteSets, TLC

VARIABLES
    build,           \* preprocessor configuration: [os, debug, arm32]
    env,             \* set of environment variables that are set
    cmd,             \* base::CommandLine::ForCurrentProcess(): switch -> value
    logging,         \* state of base/logging as configured by the delegate
    stack_dumping,   \* base::debug::EnableInProcessStackDumping() was called
    effects,         \* one-shot framework registrations the delegate made
    bundle,          \* ui::ResourceBundle shared instance
    content_client_, \* AtomMainDelegate::content_client_
    browser_client_, \* AtomMainDelegate::browser_client_
    renderer_client_,\* AtomMainDelegate::renderer_client_
    utility_client_, \* AtomMainDelegate::utility_client_
    last,            \* the callback that ran last: its inputs and its results
    calls            \* number of callbacks that have run

vars == <<build, env, cmd, logging, stack_dumping, effects, bundle,
          content_client_, browser_client_, renderer_client_, utility_client_,
          last, calls>>

\* Number of delegate callbacks one behaviour runs.
MaxCalls == 1

----------------------------------------------------------------------------
\* Switch names and process-type values the file refers to.

kProcessType == "type"
kLang == "lang"
kEnableLogging == "enable-logging"
kEnableSandbox == "enable-sandbox"
kEnableMixedSandbox == "enable-mixed-sandbox"
kNoSandbox == "no-sandbox"
kDisableSetuidSandbox == "disable-setuid-sandbox"
kAllowFileAccessFromFiles == "allow-file-access-from-files"
kEnableAVFoundation == "enable-avfoundation"

kRelauncherProcess == "relauncher"
kZygoteProcess == "zygote"
kPpapiPluginProcess == "ppapi"
kPpapiBrokerProcess == "ppapi-broker"
kGpuProcess == "gpu-process"
kRendererProcess == "renderer"
kUtilityProcess == "utility"

kEnvEnableLogging == "ELECTRON_ENABLE_LOGGING"
kEnvEnableStackDumping == "ELECTRON_ENABLE_STACK_DUMPING"

\* Values a process-type string takes: empty (the browser), the types the
\* file names, and one type the file does not name.
ProcessTypes ==
    {"", kRendererProcess, kUtilityProcess, kGpuProcess, kZygoteProcess,
     kPpapiPluginProcess, kPpapiBrokerProcess, kRelauncherProcess, "nacl-loader"}

\* Valueless switches that may be on the command line at process start.
FlagSwitches ==
    {kEnableLogging, kEnableSandbox, kEnableMixedSandbox, kNoSandbox,
     kDisableSetuidSandbox}

Locales == {"en-US"}

\* Exit codes relauncher::RelauncherMain may hand back.
RelauncherExitCodes == {0, 1}

\* OS_WIN / OS_MACOSX / OS_LINUX, DEBUG, ARCH_CPU_ARM_FAMILY && ARCH_CPU_32_BITS.
BuildConfigs ==
    { b \in [os : {"linux", "mac", "win"}, debug : BOOLEAN, arm32 : BOOLEAN] :
        b.arm32 => b.os = "linux" }

OS_WIN(b) == b.os = "win"
OS_MACOSX(b) == b.os = "mac"
OS_LINUX(b) == b.os = "linux"
OS_POSIX(b) == b.os \in {"linux", "mac"}

----------------------------------------------------------------------------
\* base::CommandLine as the file uses it.

HasSwitch(c, s) == s \in DOMAIN c

GetSwitchValueASCII(c, s) == IF s \in DOMAIN c THEN c[s] ELSE ""

AppendSwitch(c, s) == [x \in (DOMAIN c) \cup {s} |-> IF x = s THEN "" ELSE c[x]]

RECURSIVE AppendSwitches(_, _)
AppendSwitches(c, ss) ==
    IF ss = <<>> THEN c
    ELSE AppendSwitches(AppendSwitch(c, Head(ss)), Tail(ss))

\* A command line at process start: the flags present, the process-type
\* switch (absent, or present with a value) and the lang switch likewise.
CommandLines ==
    { [x \in flags \cup typ \cup lng |->
          IF x = kProcessType THEN pt ELSE IF x = kLang THEN loc ELSE ""] :
        flags \in SUBSET FlagSwitches,
        typ \in SUBSET {kProcessType}, pt \in ProcessTypes,
        lng \in SUBSET {kLang}, loc \in Locales }

----------------------------------------------------------------------------
\* Anonymous-namespace helpers.

IsBrowserProcessAlways(c) == TRUE

IsBrowserProcess(c) == GetSwitchValueASCII(c, kProcessType) = ""

SubprocessNeedsResourceBundleNoUtility(b, process_type) ==
    \/ (OS_POSIX(b) /\ ~OS_MACOSX(b) /\ process_type = kZygoteProcess)
    \/ (OS_MACOSX(b) /\ process_type = kPpapiPluginProcess)
    \/ (OS_MACOSX(b) /\ process_type = kPpapiBrokerProcess)
    \/ (OS_MACOSX(b) /\ process_type = kGpuProcess)
    \/ process_type = kRendererProcess

SubprocessNeedsResourceBundle(b, process_type) ==
    \/ (OS_POSIX(b) /\ ~OS_MACOSX(b) /\ process_type = kZygoteProcess)
    \/ (OS_MACOSX(b) /\ process_type = kPpapiPluginProcess)
    \/ (OS_MACOSX(b) /\ process_type = kPpapiBrokerProcess)
    \/ (OS_MACOSX(b) /\ process_type = kGpuProcess)
    \/ process_type = kRendererProcess
    \/ process_type = kUtilityProcess

\* LoadResourceBundle: drop the shared instance if there is one, create it
\* for the locale, reload the locale resources and add the data packs.
LoadResourceBundle(bnd, locale) ==
    [initialized |-> TRUE,
     locale |-> locale,
     cleaned_up |-> bnd.initialized,
     packs |-> <<"resources.pak">>]

----------------------------------------------------------------------------
\* BasicStartupComplete

\* settings.logging_dest before the enable-logging test.
DefaultLoggingDest(b) ==
    IF OS_WIN(b) /\ b.debug THEN "LOG_TO_ALL" ELSE "LOG_TO_SYSTEM_DEBUG_LOG"

DefaultLogFile(b) == IF OS_WIN(b) /\ b.debug THEN "debug.log" ELSE ""

LoggingDisabledSwitchOnly(c, e) == ~HasSwitch(c, kEnableLogging)

\* The condition under which logging is switched off.
LoggingDisabled(c, e) ==
    ~HasSwitch(c, kEnableLogging) /\ kEnvEnableLogging \notin e

EnableStackDumping(b, e) ==
    IF b.arm32 THEN FALSE
    ELSE IF b.debug /\ OS_LINUX(b) THEN TRUE
    ELSE kEnvEnableStackDumping \in e

BasicStartupEffects(b, c) ==
    (IF OS_WIN(b) /\ IsBrowserProcess(c) THEN {"wcout-newline"} ELSE {})
    \cup {"RegisterPathProvider"}
    \cup (IF OS_MACOSX(b)
          THEN {"OverrideChildProcessPath", "OverrideFrameworkBundlePath",
                "SetUpBundleOverrides"}
          ELSE {})
    \cup (IF OS_WIN(b)
          THEN {"InvalidParameterHandler", "DisableHandleVerifier"}
          ELSE {})

NoCall ==
    [op |-> "none", before |-> << >>, appended |-> << >>, loaded |-> FALSE,
     locale |-> "", arg |-> "", ret_int |-> 0, ret_bool |-> FALSE,
     ret_obj |-> "", relauncher_called |-> FALSE, relauncher_ret |-> 0]

BasicStartupComplete ==
    /\ calls < MaxCalls
    /\ logging' =
         [initialized |-> TRUE,
          logging_dest |-> IF LoggingDisabled(cmd, env) THEN "LOG_NONE"
                           ELSE DefaultLoggingDest(build),
          log_file |-> DefaultLogFile(build),
          min_log_level |-> IF LoggingDisabled(cmd, env) THEN "LOG_NUM_SEVERITIES"
                            ELSE logging.min_log_level,
          log_items |-> <<TRUE, FALSE, TRUE, FALSE>>]
    /\ stack_dumping' = (stack_dumping \/ EnableStackDumping(build, env))
    /\ effects' = effects \cup BasicStartupEffects(build, cmd)
    /\ content_client_' = "AtomContentClient"
    /\ last' = [NoCall EXCEPT !.op = "BasicStartupComplete", !.before = cmd,
                              !.ret_bool = FALSE]
    /\ calls' = calls + 1
    /\ UNCHANGED <<build, env, cmd, bundle, browser_client_, renderer_client_,
                   utility_client_>>

----------------------------------------------------------------------------
\* PreSandboxStartup

SandboxAppendsSwapped(c) ==
    IF ~HasSwitch(c, kEnableMixedSandbox)
    THEN IF HasSwitch(c, kEnableSandbox)
         THEN <<kNoSandbox>>
         ELSE <<kDisableSetuidSandbox>>
    ELSE << >>

SandboxAppendsIgnoringMixed(c) ==
    IF HasSwitch(c, kEnableSandbox)
    THEN <<kDisableSetuidSandbox>>
    ELSE <<kNoSandbox>>

\* The sandbox switch the browser process appends.
SandboxAppends(c) ==
    IF ~HasSwitch(c, kEnableMixedSandbox)
    THEN IF HasSwitch(c, kEnableSandbox)
         THEN <<kDisableSetuidSandbox>>
         ELSE <<kNoSandbox>>
    ELSE << >>

BrowserAppendsNoFileAccess(b, c) ==
    SandboxAppends(c)
    \o (IF OS_MACOSX(b) THEN <<kEnableAVFoundation>> ELSE << >>)

\* The switches the browser process appends, in order.
BrowserAppends(b, c) ==
    SandboxAppends(c)
    \o <<kAllowFileAccessFromFiles>>
    \o (IF OS_MACOSX(b) THEN <<kEnableAVFoundation>> ELSE << >>)

PreSandboxStartup ==
    /\ calls < MaxCalls
    /\ LET process_type == GetSwitchValueASCII(cmd, kProcessType)
           needs == SubprocessNeedsResourceBundle(build, process_type)
           locale == GetSwitchValueASCII(cmd, kLang)
           appended == IF ~IsBrowserProcess(cmd) THEN << >>
                       ELSE BrowserAppends(build, cmd)
       IN /\ bundle' = IF needs THEN LoadResourceBundle(bundle, locale) ELSE bundle
          /\ cmd' = AppendSwitches(cmd, appended)
          /\ last' = [NoCall EXCEPT !.op = "PreSandboxStartup", !.before = cmd,
                                    !.appended = appended, !.loaded = needs,
                                    !.locale = IF needs THEN locale ELSE ""]
    /\ calls' = calls + 1
    /\ UNCHANGED <<build, env, logging, stack_dumping, effects, content_client_,
                   browser_client_, renderer_client_, utility_client_>>

----------------------------------------------------------------------------
\* PreCreateMainMessageLoop

PreCreateMainMessageLoop ==
    /\ calls < MaxCalls
    /\ effects' = effects \cup (IF OS_MACOSX(build) THEN {"RegisterAtomCrApp"} ELSE {})
    /\ last' = [NoCall EXCEPT !.op = "PreCreateMainMessageLoop", !.before = cmd]
    /\ calls' = calls + 1
    /\ UNCHANGED <<build, env, cmd, logging, stack_dumping, bundle,
                   content_client_, browser_client_, renderer_client_,
                   utility_client_>>

----------------------------------------------------------------------------
\* Create*Client

CreateContentBrowserClient ==
    /\ calls < MaxCalls
    /\ browser_client_' = "AtomBrowserClient"
    /\ last' = [NoCall EXCEPT !.op = "CreateContentBrowserClient", !.before = cmd,
                              !.ret_obj = "AtomBrowserClient"]
    /\ calls' = calls + 1
    /\ UNCHANGED <<build, env, cmd, logging, stack_dumping, effects, bundle,
                   content_client_, renderer_client_, utility_client_>>

RendererClientClassConjunction(c) ==
    IF HasSwitch(c, kEnableSandbox) /\ ~HasSwitch(c, kNoSandbox)
    THEN "AtomSandboxedRendererClient"
    ELSE "AtomRendererClient"

\* The class of renderer client CreateContentRendererClient constructs.
RendererClientClass(c) ==
    IF HasSwitch(c, kEnableSandbox) \/ ~HasSwitch(c, kNoSandbox)
    THEN "AtomSandboxedRendererClient"
    ELSE "AtomRendererClient"

CreateContentRendererClient ==
    /\ calls < MaxCalls
    /\ renderer_client_' = RendererClientClass(cmd)
    /\ last' = [NoCall EXCEPT !.op = "CreateContentRendererClient", !.before = cmd,
                              !.ret_obj = RendererClientClass(cmd)]
    /\ calls' = calls + 1
    /\ UNCHANGED <<build, env, cmd, logging, stack_dumping, effects, bundle,
                   content_client_, browser_client_, utility_client_>>

CreateContentUtilityClient ==
    /\ calls < MaxCalls
    /\ utility_client_' = "AtomContentUtilityClient"
    /\ last' = [NoCall EXCEPT !.op = "CreateContentUtilityClient", !.before = cmd,
                              !.ret_obj = "AtomContentUtilityClient"]
    /\ calls' = calls + 1
    /\ UNCHANGED <<build, env, cmd, logging, stack_dumping, effects, bundle,
                   content_client_, browser_client_, renderer_client_>>

----------------------------------------------------------------------------
\* RunProcess

RunsRelauncherUnlessBrowser(process_type) == process_type # ""

\* Whether RunProcess hands the process to relauncher::RelauncherMain.
RunsRelauncher(process_type) == process_type = kRelauncherProcess

RunProcess ==
    /\ calls < MaxCalls
    /\ \E process_type \in ProcessTypes, code \in RelauncherExitCodes :
          last' = [NoCall EXCEPT
                     !.op = "RunProcess", !.before = cmd, !.arg = process_type,
                     !.relauncher_called = RunsRelauncher(process_type),
                     !.relauncher_ret = IF RunsRelauncher(process_type) THEN code ELSE 0,
                     !.ret_int = IF RunsRelauncher(process_type) THEN code ELSE -1]
    /\ calls' = calls + 1
    /\ UNCHANGED <<build, env, cmd, logging, stack_dumping, effects, bundle,
                   content_client_, browser_client_, renderer_client_,
                   utility_client_>>

----------------------------------------------------------------------------

Init ==
    /\ build \in BuildConfigs
    /\ env \in SUBSET {kEnvEnableLogging, kEnvEnableStackDumping}
    /\ cmd \in CommandLines
    /\ logging = [initialized |-> FALSE, logging_dest |-> "LOG_DEFAULT",
                  log_file |-> "", min_log_level |-> "LOG_INFO",
                  log_items |-> <<FALSE, FALSE, FALSE, FALSE>>]
    /\ stack_dumping = FALSE
    /\ effects = {}
    /\ bundle = [initialized |-> FALSE, locale |-> "", cleaned_up |-> FALSE,
                 packs |-> << >>]
    /\ content_client_ = "nullptr"
    /\ browser_client_ = "nullptr"
    /\ renderer_client_ = "nullptr"
    /\ utility_client_ = "nullptr"
    /\ last = NoCall
    /\ calls = 0

Next ==
    \/ BasicStartupComplete
    \/ PreSandboxStartup
    \/ PreCreateMainMessageLoop
    \/ CreateContentBrowserClient
    \/ CreateContentRendererClient
    \/ CreateContentUtilityClient
    \/ RunProcess

Spec == Init /\ [][Next]_vars

----------------------------------------------------------------------------
\* Properties of the callbacks.

Count(seq, s) == Cardinality({i \in DOMAIN seq : seq[i] = s})

\* The process type and flags the callback that ran last started from.
TypeBefore == IF kProcessType \in DOMAIN last.before THEN last.before[kProcessType] ELSE ""
Had(s) == s \in DOMAIN last.before
Has(s) == s \in DOMAIN cmd

\* C1: CreateContentRendererClient returns the sandboxed renderer client
\* exactly when enable-sandbox is present or no-sandbox is absent, and the
\* plain renderer client otherwise; with both switches present the sandboxed
\* client is chosen.
C1_RendererClientChoice ==
    last.op = "CreateContentRendererClient" =>
        /\ last.ret_obj \in {"AtomSandboxedRendererClient", "AtomRendererClient"}
        /\ renderer_client_ = last.ret_obj
        /\ (last.ret_obj = "AtomSandboxedRendererClient")
              <=> (Had(kEnableSandbox) \/ ~Had(kNoSandbox))
        /\ (Had(kNoSandbox) /\ ~Had(kEnableSandbox))
              => last.ret_obj = "AtomRendererClient"
        /\ (Had(kNoSandbox) /\ Had(kEnableSandbox))
              => last.ret_obj = "AtomSandboxedRendererClient"

C1_Witness ==
    /\ last.op = "CreateContentRendererClient"
    /\ Had(kNoSandbox) /\ Had(kEnableSandbox)
    /\ renderer_client_ = "AtomSandboxedRendererClient"

\* C2: in the browser process without enable-mixed-sandbox, PreSandboxStartup
\* appends exactly one of the two sandbox switches: disable-setuid-sandbox
\* (and not no-sandbox) when enable-sandbox is present, no-sandbox (and not
\* disable-setuid-sandbox) when it is absent.
C2_ExactlyOneSandboxSwitch ==
    (last.op = "PreSandboxStartup" /\ TypeBefore = "" /\ ~Had(kEnableMixedSandbox)) =>
        /\ Count(last.appended, kNoSandbox)
             + Count(last.appended, kDisableSetuidSandbox) = 1
        /\ Had(kEnableSandbox) =>
              /\ Count(last.appended, kDisableSetuidSandbox) = 1
              /\ Count(last.appended, kNoSandbox) = 0
              /\ Has(kDisableSetuidSandbox)
        /\ ~Had(kEnableSandbox) =>
              /\ Count(last.appended, kNoSandbox) = 1
              /\ Count(last.appended, kDisableSetuidSandbox) = 0
              /\ Has(kNoSandbox)

C2_Witness ==
    /\ last.op = "PreSandboxStartup" /\ TypeBefore = ""
    /\ ~Had(kEnableMixedSandbox) /\ Had(kEnableSandbox)
    /\ ~Had(kDisableSetuidSandbox) /\ Has(kDisableSetuidSandbox)
    /\ ~Has(kNoSandbox)

\* C3: in the browser process with enable-mixed-sandbox, PreSandboxStartup
\* appends neither no-sandbox nor disable-setuid-sandbox, with or without
\* enable-sandbox: both are present afterwards exactly if they were before.
C3_MixedSandboxAppendsNeither ==
    (last.op = "PreSandboxStartup" /\ TypeBefore = "" /\ Had(kEnableMixedSandbox)) =>
        /\ Count(last.appended, kNoSandbox) = 0
        /\ Count(last.appended, kDisableSetuidSandbox) = 0
        /\ Has(kNoSandbox) <=> Had(kNoSandbox)
        /\ Has(kDisableSetuidSandbox) <=> Had(kDisableSetuidSandbox)

C3_Witness ==
    /\ last.op = "PreSandboxStartup" /\ TypeBefore = ""
    /\ Had(kEnableMixedSandbox) /\ Had(kEnableSandbox)
    /\ ~Has(kNoSandbox) /\ ~Has(kDisableSetuidSandbox)
    /\ Has(kAllowFileAccessFromFiles)

\* C4: with a non-empty process type PreSandboxStartup appends nothing: the
\* command line's switches are exactly those it had before the call.
C4_SubprocessAppendsNothing ==
    (last.op = "PreSandboxStartup" /\ TypeBefore # "") =>
        /\ last.appended = << >>
        /\ DOMAIN cmd = DOMAIN last.before
        /\ cmd = last.before

C4_Witness ==
    /\ last.op = "PreSandboxStartup" /\ TypeBefore = kRendererProcess
    /\ ~Has(kNoSandbox) /\ ~Has(kDisableSetuidSandbox)
    /\ ~Has(kAllowFileAccessFromFiles) /\ ~Has(kEnableAVFoundation)

\* C5: in the browser process the command line has allow-file-access-from-files
\* after PreSandboxStartup, whatever enable-sandbox and enable-mixed-sandbox were.
C5_BrowserAllowsFileAccess ==
    (last.op = "PreSandboxStartup" /\ TypeBefore = "") =>
        /\ Has(kAllowFileAccessFromFiles)
        /\ Count(last.appended, kAllowFileAccessFromFiles) = 1

C5_Witness ==
    /\ last.op = "PreSandboxStartup" /\ TypeBefore = ""
    /\ Had(kEnableMixedSandbox) /\ ~Had(kEnableSandbox)
    /\ ~Had(kAllowFileAccessFromFiles) /\ Has(kAllowFileAccessFromFiles)

\* C6: RunProcess returns what RelauncherMain returned for the process type
\* "relauncher", and -1 without invoking RelauncherMain for every other type.
C6_RunProcessOnlyRelauncher ==
    last.op = "RunProcess" =>
        /\ last.arg = "relauncher" =>
              last.relauncher_called /\ last.ret_int = last.relauncher_ret
        /\ last.arg # "relauncher" =>
              ~last.relauncher_called /\ last.ret_int = -1

C6_Witness ==
    /\ last.op = "RunProcess" /\ last.arg = "relauncher"
    /\ last.relauncher_called /\ last.ret_int = 1

C8_BundleLoadedWhenNeeded ==
    last.op = "PreSandboxStartup" =>
        /\ last.loaded <=>
              TypeBefore \in
                 {"renderer", "utility"}
                 \cup (IF build.os = "linux" THEN {"zygote"} ELSE {})
                 \cup (IF build.os = "mac"
                       THEN {"ppapi", "ppapi-broker", "gpu-process"} ELSE {})
        /\ last.loaded =>
              /\ last.locale = (IF Had(kLang) THEN last.before[kLang] ELSE "")
              /\ bundle.initialized /\ bundle.locale = last.locale
        /\ TypeBefore \in {"", "relauncher"} => ~last.loaded

C8_Witness ==
    /\ last.op = "PreSandboxStartup" /\ TypeBefore = "gpu-process"
    /\ build.os = "mac" /\ Had(kLang)
    /\ last.loaded /\ bundle.locale = "en-US"

====
